---------------------------- MODULE Spec2Model ----------------------------
(***************************************************************************)
(* A model of src/playwright/index.ts: the tool dispatcher handleToolCall, *)
(* its asset-acquisition handlers, the artifact store (screenshots,        *)
(* fileTypeMappings) and the resource reader.                              *)
(*                                                                         *)
(* One tool call runs at a time.  A handler is a sequence of steps, one    *)
(* per awaited operation of the source; `call` holds the handler's frame   *)
(* (its position and locals) and `obs` records what happened during the    *)
(* call (click attempts, sources armed and consulted, candidates tried,    *)
(* store writes).  Whatever the browser does in answer to an awaited       *)
(* operation (succeed, throw, time out, fire an event) is chosen with \E.  *)
(***************************************************************************)
EXTENDS Naturals, Sequences, FiniteSets

VARIABLES
    browser,            \* index.ts:374  "undefined" | "launched"
    page,               \* index.ts:375  "undefined" | "open"
    screenshots,        \* index.ts:377  name -> base64 bytes
    fileTypeMappings,   \* index.ts:2943 name -> MIME type
    exposed,            \* index.ts:2625 is __reportUrlFound__ bound on the page
    hooks,              \* overrides in effect on the primary page
    leaked,             \* auxiliary contexts left open by calls that returned
    calls,              \* tool calls dispatched so far
    consoleListeners,   \* index.ts:387  "console" listeners on the primary page
    call,               \* the running handler's frame
    obs                 \* what the running call did, for the properties

vars == <<browser, page, screenshots, fileTypeMappings, exposed, hooks, leaked, calls,
          consoleListeners, call, obs>>
globals == <<browser, page, screenshots, fileTypeMappings, exposed, hooks, leaked, calls,
             consoleListeners>>
stores == <<screenshots, fileTypeMappings>>
handles == <<browser, page, exposed, hooks, leaked, calls, consoleListeners>>
\* everything but the stores, the primary page and the frame
sessions == <<browser, exposed, hooks, leaked, calls, consoleListeners>>
\* everything but the page's overrides and the frame
unhooked == <<browser, page, screenshots, fileTypeMappings, exposed, leaked, calls,
              consoleListeners>>

-----------------------------------------------------------------------------
(* Bounds of the model *)

\* tool calls in one run
MaxCalls == 2
\* elements a locator can match
MaxMatches == 2
\* candidates one signal source can record during a call
MaxCandidates == 2

-----------------------------------------------------------------------------
(* Names, bytes and MIME types *)

\* the fileName / name argument of a call
FileNames == {"report", "cert.pdf"}

\* index.ts:1018  `${args.fileName}_not_pdf`
NotPdfName(n) == IF n = "report" THEN "report_not_pdf" ELSE "cert.pdf_not_pdf"

Names == FileNames \cup {NotPdfName(n) : n \in FileNames}

\* index.ts:2987-2993  name.toLowerCase().endsWith('.pdf')
EndsWithPdf(n) == n = "cert.pdf"

\* Bytes are named after the candidate they were read from.
Bytes == {"png", "download", "newpage", "redirect", "response", "link",
          "request", "xhr", "hook", "script"}

Absent == "absent"

\* index.ts:1221-1229  extension of the suggested file name -> MIME type
MimeOfExtension(ext) ==
    IF ext = "pdf" THEN "application/pdf"
    ELSE IF ext \in {"doc", "docx"} THEN "application/msword"
    ELSE IF ext \in {"xls", "xlsx"} THEN "application/vnd.ms-excel"
    ELSE IF ext \in {"ppt", "pptx"} THEN "application/vnd.ms-powerpoint"
    ELSE "application/octet-stream"

\* suggested file names of a download, as their parts between dots
SuggestedNames ==
    {<<"report", "PDF">>, <<"memo", "docx">>, <<"data", "xls">>, <<"a", "zip">>,
     <<"report">>, <<"pdf">>}

\* String.toLowerCase() on the parts of SuggestedNames
ToLowerCase(s) == IF s = "PDF" THEN "pdf" ELSE s

\* index.ts:1222  suggestedName.split('.').pop()?.toLowerCase() || '': the part
\* after the last dot, or the whole name when it has no dot
ExtensionOf(name) == ToLowerCase(name[Len(name)])

\* extensions a suggested file name or URL can end with ("" = none)
Extensions == {"pdf", "docx", "xls", "zip", ""}

-----------------------------------------------------------------------------
(* Results of a tool call *)

Pending == [kind |-> "pending", isError |-> FALSE, text |-> "none"]
Success(text) == [kind |-> "returned", isError |-> FALSE, text |-> text]
Failure(text) == [kind |-> "returned", isError |-> TRUE, text |-> text]
\* the promise of handleToolCall rejects: nothing is returned to the dispatcher
Threw == [kind |-> "threw", isError |-> FALSE, text |-> "exception"]

-----------------------------------------------------------------------------
(* The frame of a call and its record *)

IdleCall ==
    [tool |-> "none", fileName |-> "none", pc |-> "idle", result |-> Pending,
     ctx |-> "none",        \* the auxiliary context: "none" | "open" | "closed"
     download |-> "none",   \* the download event: "none" | "started"
     newPage |-> "none",    \* the page a click opened: "none" | "open" | "closed",
                            \* or "gone" when the page closed itself
     bytes |-> "none",      \* pdfBytes / fileBytes: "none" or the bytes
     url |-> "none",        \* foundPdfUrl / pdfUrl: "none" or its source
     left |-> 0,            \* candidates of the running loop still to try
     count |-> 0,           \* candidates the running loop started with
     listeners |-> {},      \* its listeners on the primary page and context
     seeded |-> FALSE,      \* were the primary context's cookies added to ctx
     auxNav |-> "none",     \* a page of ctx navigated: "none" | "seeded" | "unseeded"
     seen |-> <<>>,         \* responseUrls / responses: what the listener recorded
     peer |-> "none",       \* a call handled while this one is in flight: "none" |
                            \* "armed" | "clicked" (its click opened a tab)
     opener |-> "none",     \* whose click opened newPage: "none" | "self" | "peer"
     waiter |-> "none",     \* waitForEvent('download'): "none" | "armed" | "awaited",
                            \* or "unhandled" once it rejected with no handler
     jar |-> {},            \* cookies of the primary context when ctx was seeded
     auxCookies |-> {},     \* cookies added to ctx
     suggested |-> <<>>,    \* download.suggestedFilename(), as its parts
     found |-> 0,           \* urlFoundPromise: 0 while pending, else the place of the
                            \* report that settled it among the call's reports
     pageUrl |-> "none",    \* page.url() after the click, when it changed
     hooked |-> 0,          \* interceptResult.urls that match the URL patterns
     fetched |-> "none",    \* how the auxiliary page got the bytes: "none", the content
                            \* type of the in-page fetch, or "download"
     load |-> "none",       \* waitForLoadState on the new page: "none" | "ok" | "failed"
     temp |-> "none",       \* the download's temporary file: "none" | "present" | "deleted"
     dir |-> "none",        \* /app/Downloads: "none" | "missing" | "existed" | "created"
     dest |-> "none",       \* finalSavePath: "none" | "written"
     race |-> "pending",    \* Promise.race of index.ts:2731: who settled first
     timer |-> "unset"]     \* the deadline timer of index.ts:2730

IdleObs ==
    [matches |-> 0,         \* elements the call's locator matches
     attempts |-> <<>>,     \* click attempts, in order
     armed |-> {},          \* signal sources registered so far
     armedAtClick |-> {},   \* ... at the first click attempt
     consulted |-> {},      \* signal sources read after the click
     trail |-> <<>>,        \* candidates tried, in order, with the outcome
     writes |-> <<>>,       \* writes to the artifact store, in order
     reports |-> <<>>,      \* calls of __reportUrlFound__: "race" | "late", in order
     missed |-> 0,          \* responses that arrived with no listener registered
     notes |-> 0]           \* list_changed notifications sent

\* a response of the primary page, as far as the handlers look at it: status
\* code, content-type header, URL
Urls == {"/a.pdf", "/pdf/view", "/export?format=pdf"}

ResponseUrls == {"/a.pdf", "/export?format=pdf"}

Responses ==
    [status : {200, 404}, ctype : {"application/pdf", "text/html"}, url : ResponseUrls]

\* url.toLowerCase().endsWith('.pdf'), on Urls
UrlEndsWithPdf(u) == u = "/a.pdf"

\* url.endsWith('.pdf') || url.includes('.pdf?') || url.includes('/pdf/'), on Urls
LooksLikePdfUrl(u) == UrlEndsWithPdf(u) \/ u = "/pdf/view"

\* headers['content-type'].includes('pdf')
IncludesPdf(ctype) == ctype = "application/pdf"

\* newPage.waitForLoadState(...) resolves, or rejects (timeout, page closed)
LoadOutcomes == {"ok", "failed"}

\* a handler returns r (its locals, the recorded responses among them, are gone)
Return(c, r) == [c EXCEPT !.pc = "done", !.result = r, !.seen = <<>>]

-----------------------------------------------------------------------------
(* The artifact store *)

\* server.notification({method: "notifications/resources/list_changed"}), the
\* statement after every write: index.ts:432, 1020, 1128, 1237, 1309, 1362,
\* 1432, 1773, 2009, 2081, 2168, 2531
NotifyMutant(o) == o

Notify(o) == [o EXCEPT !.notes = @ + 1]

\* screenshots.set(name, bytes) without fileTypeMappings.set: index.ts:431, 1019, 1127
WriteUnmapped(o, name, b, declared) ==
    /\ screenshots' = [screenshots EXCEPT ![name] = b]
    /\ UNCHANGED fileTypeMappings
    /\ obs' = Notify([o EXCEPT !.writes =
                 Append(@, [name |-> name, bytes |-> b, mime |-> declared])])

\* screenshots.set(name, bytes); fileTypeMappings.set(name, mime): index.ts:1232-1235
WriteMapped(o, name, b, mime) ==
    /\ screenshots' = [screenshots EXCEPT ![name] = b]
    /\ fileTypeMappings' = [fileTypeMappings EXCEPT ![name] = mime]
    /\ obs' = Notify([o EXCEPT !.writes =
                 Append(@, [name |-> name, bytes |-> b, mime |-> mime])])

\* index.ts:2959-2972  ListResourcesRequestSchema handler: one resource per key
\* of screenshots, each advertised as image/png
ListResources ==
    {[name |-> n, mimeType |-> "image/png"] : n \in {m \in Names : screenshots[m] # Absent}}

\* index.ts:2987-3005  ReadResourceRequestSchema handler, screenshot:// URIs
ReadResource(name) ==
    IF screenshots[name] # Absent
    THEN [found |-> TRUE, blob |-> screenshots[name],
          mimeType |-> IF fileTypeMappings[name] # Absent
                       THEN fileTypeMappings[name]
                       ELSE IF EndsWithPdf(name) THEN "application/pdf"
                            ELSE "image/png"]
    ELSE [found |-> FALSE, blob |-> Absent, mimeType |-> Absent]

-----------------------------------------------------------------------------
(* ensureBrowser and the dispatcher *)

AcquisitionTools ==
    {"browser_download_pdf", "browser_force_download",
     "browser_authenticated_download", "browser_capture_request",
     "browser_intercept_tabs", "browser_click_and_extract_url",
     "browser_click_and_capture", "browser_click_and_download_authenticated"}

Tools == {"browser_navigate", "browser_screenshot", "browser_click"}
            \cup AcquisitionTools

\* index.ts:379-397  what ensureBrowser can leave behind: launch or newPage may throw
EnsureBrowser(b, p) ==
    (IF b = "undefined"
     THEN {[browser |-> "undefined", page |-> p, ok |-> FALSE]} ELSE {})
    \cup (IF p = "undefined"
          THEN {[browser |-> "launched", page |-> "undefined", ok |-> FALSE]} ELSE {})
    \cup {[browser |-> "launched", page |-> "open", ok |-> TRUE]}

\* the first step of each case of the switch, index.ts:402
Entry(t) ==
    CASE t = "browser_navigate" -> "nav_goto"
      [] t = "browser_screenshot" -> "shot_take"
      [] t = "browser_click" -> "click"
      [] t = "browser_download_pdf" -> "dp_arm"
      [] t = "browser_force_download" -> "fd_newContext"
      [] t = "browser_authenticated_download" -> "ad_arm"
      [] t = "browser_capture_request" -> "cr_arm"
      [] t = "browser_intercept_tabs" -> "it_locate"
      [] t = "browser_click_and_extract_url" -> "eu_locate"
      [] t = "browser_click_and_capture" -> "cc_arm"
      [] t = "browser_click_and_download_authenticated" -> "da_arm"

\* the tools that take a fileName / name argument
StoringTools ==
    {"browser_screenshot", "browser_download_pdf", "browser_force_download",
     "browser_authenticated_download", "browser_capture_request",
     "browser_intercept_tabs"}

ArgNames(t) == IF t \in StoringTools THEN FileNames ELSE {"none"}

\* how many elements the call's locator can match on the page
LocatorMatches(t) ==
    IF t \in {"browser_navigate", "browser_screenshot"} THEN {0} ELSE 0..MaxMatches

\* index.ts:3016-3018 and 399-400: the dispatcher calls handleToolCall, which
\* awaits ensureBrowser outside every try block.  ensureBrowser, when launch
\* and newPage went through, registers one more "console" listener (387-394).
Dispatch(t, f, n) ==
    /\ call.pc \in {"idle", "done"}
    /\ calls < MaxCalls
    /\ calls' = calls + 1
    /\ leaked' = leaked + (IF call.ctx = "open" THEN 1 ELSE 0)
    /\ \E e \in EnsureBrowser(browser, page) :
          /\ browser' = e.browser
          /\ page' = e.page
          /\ consoleListeners' = IF e.ok THEN consoleListeners + 1 ELSE consoleListeners
          /\ call' = IF e.ok
                     THEN [IdleCall EXCEPT !.tool = t, !.fileName = f, !.pc = Entry(t)]
                     ELSE Return([IdleCall EXCEPT !.tool = t, !.fileName = f], Threw)
    /\ obs' = [IdleObs EXCEPT !.matches = n]
    /\ UNCHANGED <<stores, exposed, hooks>>

\* index.ts:3016-3018: the dispatcher awaits nothing between requests: a
\* second tools/call is handled while the first one waits for its page
PeerDispatch ==
    /\ call.pc \notin {"idle", "done"}
    /\ "page" \in call.listeners
    /\ call.peer = "none"
    /\ calls < MaxCalls
    /\ calls' = calls + 1
    /\ consoleListeners' = consoleListeners + 1
    /\ call' = [call EXCEPT !.peer = "armed"]
    /\ UNCHANGED <<browser, page, stores, exposed, hooks, leaked, obs>>

\* 821, 945, 1532: the click of that second call opens a tab in
\* browser.contexts()[0], the context both calls listen on
PeerClick ==
    /\ call.peer = "armed"
    /\ "page" \in call.listeners
    /\ call' = [call EXCEPT !.peer = "clicked"]
    /\ UNCHANGED <<globals, obs>>

\* 794-796, 925, 1520: once('page', ...) on browser.contexts()[0] fires for the
\* next page of the context, whichever click opened it
Openers(c) == {"self"} \cup (IF c.peer = "clicked" THEN {"peer"} ELSE {})

-----------------------------------------------------------------------------
(* browser_navigate, index.ts:403-411 *)

\* What a new document does to the overrides: those installed by
\* page.evaluate (2276, 2635) are gone with the old document, an init script
\* registered with addInitScript (1910) runs in the new one.
AfterNavigation(h) ==
    (h \ {"capture", "blocked"}) \cup (IF "initScript" \in h THEN {"blocked"} ELSE {})

Navigate ==
    /\ call.pc = "nav_goto"
    /\ \E ok \in BOOLEAN :
          /\ call' = Return(call, IF ok THEN Success("Navigated") ELSE Threw)
          /\ hooks' = IF ok THEN AfterNavigation(hooks) ELSE hooks
    /\ UNCHANGED <<unhooked, obs>>

(* browser_screenshot, index.ts:413-450 *)

Screenshot ==
    /\ call.pc = "shot_take"
    /\ \E o \in {"png", "empty", "throws"} :
          IF o = "png"
          THEN /\ WriteUnmapped(obs, call.fileName, "png", "image/png")
               /\ call' = Return(call, Success("Screenshot taken"))
          ELSE /\ call' = Return(call, IF o = "empty" THEN Failure("Screenshot failed")
                                       ELSE Threw)
               /\ UNCHANGED <<stores, obs>>
    /\ UNCHANGED handles

-----------------------------------------------------------------------------
(* The click with one retry on the first match, index.ts:452-492 and the   *)
(* same block in every handler that clicks (942-953, 1183-1196, 1530-1542, *)
(* 1938-1949, 807-818, 2842-2853).                                         *)

\* What locator.click() ("locator") and locator.first().click() ("first") can do
\* when the locator matches n elements: a strict-mode violation is thrown
\* before anything is clicked exactly when n > 1 and no element was picked.
ClickOutcomes(target, n) ==
    IF n = 0 THEN {"timeout"}
    ELSE IF target = "locator" /\ n > 1 THEN {"strict"}
    ELSE {"ok", "timeout"}

\* the element (in document order, 0 = none) an attempt acts on
ClickedElement(target, n) ==
    IF n = 0 \/ (target = "locator" /\ n > 1) THEN 0 ELSE 1

\* index.ts:463  (error as Error).message.includes("strict mode violation")
RetriesOnMutant(o) == o # "ok"

RetriesOn(o) == o = "strict"

RetryTools ==
    {"browser_click", "browser_download_pdf", "browser_force_download",
     "browser_authenticated_download", "browser_capture_request",
     "browser_click_and_capture", "browser_click_and_download_authenticated"}

\* where the handler goes on after a click that succeeded
AfterClick(t) ==
    CASE t = "browser_click" -> "click_ok"
      [] t = "browser_download_pdf" -> "dp_awaitPage"
      [] t = "browser_force_download" -> "fd_awaitDownload"
      [] t = "browser_authenticated_download" -> "ad_settle"
      [] t = "browser_capture_request" -> "cr_wait"
      [] t = "browser_intercept_tabs" -> "it_wait"
      [] t = "browser_click_and_extract_url" -> "eu_race"
      [] t = "browser_click_and_capture" -> "cc_awaitPage"
      [] t = "browser_click_and_download_authenticated" -> "da_awaitDownload"

Attempt(target, o) ==
    [target |-> target, outcome |-> o, element |-> ClickedElement(target, obs.matches)]

\* the outer catch of a handler: a structured failure (index.ts:1462-1470,
\* 1807-1815, 2222-2230, 2592-2600, 1140-1148)
Caught(c) == Return(c, Failure("caught"))

\* index.ts:2907-2918: the catch of browser_click_and_download_authenticated
\* answers any error whose message includes 'Timeout' (a click that found no
\* actionable element throws "Timeout ...ms exceeded") like a download that
\* never started
TimeoutCaught(c) == Return(c, Failure("No download started"))

\* index.ts:485-491, 1191-1195, 1539-1541: the click threw something else
ClickError(c) ==
    IF c.tool = "browser_click" THEN Return(c, Failure("Failed to click"))
    ELSE IF c.tool = "browser_force_download" THEN [c EXCEPT !.pc = "fd_abort"]
    ELSE IF c.tool = "browser_click_and_download_authenticated" THEN TimeoutCaught(c)
    ELSE Caught(c)

\* index.ts:474-482, 1189, 1537: the retry on the first match threw
RetryError(c) ==
    IF c.tool = "browser_click" THEN Return(c, Failure("Failed (twice) to click"))
    ELSE IF c.tool = "browser_click_and_download_authenticated" THEN TimeoutCaught(c)
    ELSE Caught(c)

\* index.ts:454, 943, 1184, 1532, 1939: locator(...).click()
FirstClick ==
    /\ call.pc = "click"
    /\ call.tool \in RetryTools
    /\ \E o \in ClickOutcomes("locator", obs.matches) :
          /\ obs' = [obs EXCEPT !.attempts = Append(@, Attempt("locator", o)),
                                !.armedAtClick = obs.armed]
          /\ call' = IF o = "ok" THEN [call EXCEPT !.pc = AfterClick(call.tool)]
                     ELSE IF RetriesOn(o) THEN [call EXCEPT !.pc = "retry"]
                     ELSE ClickError(call)
    /\ UNCHANGED globals

\* index.ts:466, 948, 1189, 1537, 1944: locator(...).first().click()
RetryClick ==
    /\ call.pc = "retry"
    /\ \E o \in ClickOutcomes("first", obs.matches) :
          /\ obs' = [obs EXCEPT !.attempts = Append(@, Attempt("first", o))]
          /\ call' = IF o = "ok" THEN [call EXCEPT !.pc = AfterClick(call.tool)]
                     ELSE RetryError(call)
    /\ UNCHANGED globals

\* index.ts:455-461: browser_click returns after the click
ClickDone ==
    /\ call.pc = "click_ok"
    /\ call' = Return(call, Success("Clicked"))
    /\ UNCHANGED <<globals, obs>>

\* index.ts:2381, 2725: buttonHandle.click() on the first() handle, no retry
HandleClick ==
    /\ call.pc \in {"it_click", "eu_click"}
    /\ \E o \in ClickOutcomes("first", obs.matches) :
          /\ obs' = [obs EXCEPT !.attempts = Append(@, Attempt("first", o)),
                                !.armedAtClick = obs.armed]
          /\ call' = IF o = "ok" THEN [call EXCEPT !.pc = AfterClick(call.tool)]
                     ELSE IF call.tool = "browser_intercept_tabs" THEN Caught(call)
                     ELSE [call EXCEPT !.pc = "eu_caught"]
    /\ UNCHANGED globals

-----------------------------------------------------------------------------
(* Signal sources and the trail of candidates *)

\* the sources a handler registers before it clicks:
\*   browser_download_pdf            928        once('page')
\*   browser_force_download          1171, 1178 on('request'), waitForEvent('download')
\*   browser_authenticated_download  1481, 1496, 1507, 1520  page URL, links,
\*                                   on('response'), once('page')
\*   browser_click_and_capture       788, 795   page URL, once('page')
\*   browser_click_and_download_authenticated  2838  waitForEvent('download')
\*   browser_capture_request         1871, 1879, 1928  on('request'), on('response'), links
\*   browser_intercept_tabs          2276       injected hooks
\*   browser_click_and_extract_url   2625, 2635 exposed callback, injected hooks
ArmedByMutant(t) ==
    CASE t = "browser_download_pdf" -> {"newpage"}
      [] t = "browser_force_download" -> {"request"}
      [] t = "browser_authenticated_download" -> {"url", "links", "response"}
      [] t = "browser_click_and_capture" -> {"url", "newpage"}
      [] t = "browser_click_and_download_authenticated" -> {"download"}
      [] t = "browser_capture_request" -> {"request", "response", "links"}
      [] t = "browser_intercept_tabs" -> {"hook"}
      [] t = "browser_click_and_extract_url" -> {"callback", "hook"}
      [] OTHER -> {}

ArmedBy(t) ==
    CASE t = "browser_download_pdf" -> {"newpage"}
      [] t = "browser_force_download" -> {"request", "download"}
      [] t = "browser_authenticated_download" -> {"url", "links", "response", "newpage"}
      [] t = "browser_click_and_capture" -> {"url", "newpage"}
      [] t = "browser_click_and_download_authenticated" -> {"download"}
      [] t = "browser_capture_request" -> {"request", "response", "links"}
      [] t = "browser_intercept_tabs" -> {"hook"}
      [] t = "browser_click_and_extract_url" -> {"callback", "hook"}
      [] OTHER -> {}

Arm(o, t) == [o EXCEPT !.armed = @ \cup ArmedBy(t)]

\* the listeners a handler registers on the primary page ("request",
\* "response") and on the primary context ("page"): index.ts:795, 928, 1507,
\* 1520, 1871, 1879
ListenersOf(t) ==
    CASE t = "browser_click_and_capture" -> {"page"}
      [] t = "browser_download_pdf" -> {"page"}
      [] t = "browser_authenticated_download" -> {"response", "page"}
      [] t = "browser_capture_request" -> {"request", "response"}
      [] OTHER -> {}

Listen(c) == [c EXCEPT !.listeners = ListenersOf(c.tool)]

\* removeListener of index.ts:1548 and 934, 1524; a once() listener that fired
Unlisten(c, kinds) == [c EXCEPT !.listeners = @ \ kinds]

Consult(o, srcs) == [o EXCEPT !.consulted = @ \cup srcs]

\* a candidate of source src was looked for: out is "absent", "failed" (found,
\* bytes not obtained) or "resolved" (bytes obtained); idx of count is its
\* place among the candidates of that source, in the order they were recorded
Tried(o, src, idx, count, out) ==
    [o EXCEPT !.trail = Append(@, [src |-> src, idx |-> idx, count |-> count, out |-> out])]

-----------------------------------------------------------------------------
(* Auxiliary browsing contexts *)

\* await context.close(): it closes the context, or it rejects and leaves it
CloseOutcomes == {"closed", "throws"}

Closed(c) == [c EXCEPT !.ctx = "closed"]

\* index.ts:1108, 1760: await newPage.close() closes the page the click
\* opened, when there is one and it is still open
CloseTargetMutant(c) == "page"

CloseTarget(c) == "newPage"

ClosePage(c) ==
    IF CloseTarget(c) = "newPage" /\ c.newPage = "open"
    THEN [c EXCEPT !.newPage = "closed"] ELSE c

\* the primary page after that close
PrimaryAfterClose(c, p) == IF CloseTarget(c) = "page" THEN "closed" ELSE p

\* the cookies of the primary context: those of the session before the click,
\* and after it also one the click or its responses may have set
CookiesBeforeClick == {"session"}

CookieJars == {CookiesBeforeClick, CookiesBeforeClick \cup {"click"}}

\* context.addCookies(cookies) went through, index.ts:1684, 2460: the primary
\* context holds jar and cookies were added to the auxiliary one
Seeded(c, jar, cookies) ==
    [c EXCEPT !.seeded = TRUE, !.jar = jar, !.auxCookies = cookies]

\* a page of the auxiliary context went to a URL, index.ts:1075, 1167, 1691, 2464
Navigated(c) == [c EXCEPT !.auxNav = IF c.seeded THEN "seeded" ELSE "unseeded"]

-----------------------------------------------------------------------------
(* browser_force_download, index.ts:1151-1471 *)

\* 1159: browser.newContext({acceptDownloads: true})
FD_NewContext ==
    /\ call.pc = "fd_newContext"
    /\ \E ok \in BOOLEAN :
          call' = IF ok THEN [call EXCEPT !.ctx = "open", !.pc = "fd_newPage"]
                  ELSE Caught(call)
    /\ UNCHANGED <<globals, obs>>

\* 1164-1178: context.newPage(), downloadPage.goto(page.url()), then the request
\* listener and the download waiter are registered
FD_Open ==
    /\ call.pc = "fd_newPage"
    /\ \E ok \in BOOLEAN :
          IF ok THEN /\ call' = Navigated([call EXCEPT !.waiter = "armed", !.pc = "click"])
                     /\ obs' = Arm(obs, call.tool)
          ELSE /\ call' = Caught(call)
               /\ UNCHANGED obs
    /\ UNCHANGED globals

\* 1191-1195: the click threw: await context.close(); throw error
FD_Abort ==
    /\ call.pc = "fd_abort"
    /\ \E o \in CloseOutcomes :
          call' = IF o = "closed" THEN Caught(Closed(call)) ELSE Caught(call)
    /\ UNCHANGED <<globals, obs>>

\* 1200-1209, strategy 1: await downloadPromise (rejects after waitTime)
FD_AwaitDownload ==
    /\ call.pc = "fd_awaitDownload"
    /\ \E fired \in BOOLEAN :
          IF fired
          THEN /\ call' = [call EXCEPT !.download = "started", !.waiter = "awaited",
                                       !.pc = "fd_save"]
               /\ obs' = Consult(obs, {"download"})
          ELSE /\ call' = [call EXCEPT !.waiter = "awaited", !.pc = "fd_pages"]
               /\ obs' = Tried(Consult(obs, {"download"}), "download", 1, 0, "absent")
    /\ UNCHANGED globals

\* 1213-1239: download.path(), readFile, MIME type from the suggested name, write
FD_Save ==
    /\ call.pc = "fd_save"
    /\ \/ /\ call' = [call EXCEPT !.pc = "fd_pages"]
          /\ obs' = Tried(obs, "download", 1, 1, "failed")
          /\ UNCHANGED stores
       \/ \E name \in SuggestedNames :
             /\ WriteMapped(Tried(obs, "download", 1, 1, "resolved"),
                            call.fileName, "download", MimeOfExtension(ExtensionOf(name)))
             /\ call' = [call EXCEPT !.bytes = "download", !.suggested = name,
                                     !.pc = "fd_close1"]
    /\ UNCHANGED handles

\* where a strategy's catch block leads, index.ts:1251-1254, 1377-1380, 1446-1449
FD_NextStrategy(pc) ==
    CASE pc = "fd_close1" -> "fd_pages"
      [] pc = "fd_close2" -> "fd_requests"
      [] pc = "fd_close3" -> "fd_final"

\* 1242-1250, 1314-1322, 1367-1375, 1437-1445: context.close() after the write,
\* inside the strategy's try block; then the success result
FD_CloseAndReturn ==
    /\ call.pc \in {"fd_close1", "fd_close2", "fd_close3"}
    /\ \E o \in CloseOutcomes :
          call' = IF o = "closed" THEN Return(Closed(call), Success("downloaded"))
                  ELSE [call EXCEPT !.pc = FD_NextStrategy(call.pc)]
    /\ UNCHANGED <<globals, obs>>

\* the file types of index.ts:1155 among the extensions of the model
FileTypes == Extensions \ {""}

\* 1257-1381, strategy 2: context.pages(), the last page, its load wait, a direct
\* file URL or PDF content, the fetch of its bytes
FD_Pages ==
    /\ call.pc = "fd_pages"
    /\ \/ /\ call' = [call EXCEPT !.pc = "fd_requests"]
          /\ obs' = Tried(obs, "newpage", 1, 0, "absent")
          /\ UNCHANGED stores
       \/ /\ call' = [call EXCEPT !.newPage = "open", !.load = "ok", !.pc = "fd_requests"]
          /\ \E out \in {"absent", "failed"} : obs' = Tried(obs, "newpage", 1, 1, out)
          /\ UNCHANGED stores
       \/ /\ call' = [call EXCEPT !.newPage = "open", !.load = "failed",
                                  !.pc = "fd_requests"]
          /\ obs' = Tried(obs, "newpage", 1, 1, "failed")
          /\ UNCHANGED stores
       \/ \E mime \in {MimeOfExtension(e) : e \in FileTypes} \cup {"application/pdf"} :
             /\ WriteMapped(Tried(obs, "newpage", 1, 1, "resolved"),
                            call.fileName, "newpage", mime)
             /\ call' = [call EXCEPT !.newPage = "open", !.load = "ok", !.bytes = "newpage",
                                     !.pc = "fd_close2"]
    /\ UNCHANGED handles

\* what blob.type can be, index.ts:1412, 1423-1424 ("" becomes octet-stream)
BlobTypes == {"application/pdf", "text/html", "application/octet-stream"}

\* 1383-1450, strategy 3: the recorded request URLs naming a file type, the last
\* one opened in a page of the context and fetched
FD_Requests ==
    /\ call.pc = "fd_requests"
    /\ \E n \in 0..MaxCandidates :
          \/ /\ n = 0
             /\ call' = [call EXCEPT !.pc = "fd_final"]
             /\ obs' = Tried(Consult(obs, {"request"}), "request", 1, 0, "absent")
             /\ UNCHANGED stores
          \/ /\ n > 0
             /\ call' = [call EXCEPT !.pc = "fd_final"]
             /\ obs' = Tried(Consult(obs, {"request"}), "request", n, n, "failed")
             /\ UNCHANGED stores
          \/ /\ n > 0
             /\ \E mime \in BlobTypes :
                   WriteMapped(Tried(Consult(obs, {"request"}), "request", n, n, "resolved"),
                               call.fileName, "request", mime)
             /\ call' = [call EXCEPT !.bytes = "request", !.pc = "fd_close3"]
    /\ UNCHANGED handles

\* 1452-1461: all strategies failed: context.close(), then the failure result
FD_Final ==
    /\ call.pc = "fd_final"
    /\ \E o \in CloseOutcomes :
          call' = IF o = "closed"
                  THEN Return(Closed(call), Failure("No file download was detected"))
                  ELSE Caught(call)
    /\ UNCHANGED <<globals, obs>>

-----------------------------------------------------------------------------
(* browser_authenticated_download, index.ts:1473-1816 *)

\* 1482-1527: cookies(), the links before the click, the response listener, the
\* page listener with its timer
AD_Arm ==
    /\ call.pc = "ad_arm"
    /\ \E ok \in BOOLEAN :
          IF ok THEN /\ call' = Listen([call EXCEPT !.pc = "click"])
                     /\ obs' = Arm(obs, call.tool)
          ELSE /\ call' = Caught(call)
               /\ UNCHANGED obs
    /\ UNCHANGED globals

\* 1501-1507, 1879-1906: a response arrives on the primary page after the
\* click; the listener, while registered, records it
ResponseArrives ==
    /\ call.pc \in {"ad_settle", "ad_awaitPage", "cr_wait"}
    /\ Len(call.seen) + obs.missed < MaxCandidates
    /\ \E r \in Responses :
          IF "response" \in call.listeners
          THEN /\ call' = [call EXCEPT !.seen = Append(@, r)]
               /\ UNCHANGED obs
          ELSE /\ obs' = [obs EXCEPT !.missed = @ + 1]
               /\ UNCHANGED call
    /\ UNCHANGED globals

\* 1545-1548: waitForTimeout(1000), then page.removeListener('response', listener)
AD_Settle ==
    /\ call.pc = "ad_settle"
    /\ call' = Unlisten([call EXCEPT !.pc = "ad_awaitPage"], {"response"})
    /\ UNCHANGED <<globals, obs>>

\* 1551: await newPagePromise (the page the click opened, or null when the
\* timer of 1523 fires)
AD_AwaitPage ==
    /\ call.pc = "ad_awaitPage"
    /\ \E opened \in BOOLEAN :
          IF opened
          THEN /\ \E who \in Openers(call) :
                     call' = Unlisten([call EXCEPT !.newPage = "open", !.opener = who,
                                                   !.pc = "ad_newPage"], {"page"})
               /\ obs' = Consult(obs, {"newpage"})
          ELSE /\ call' = Unlisten([call EXCEPT !.pc = "ad_redirect"], {"page"})
               /\ obs' = Tried(Consult(obs, {"newpage"}), "newpage", 1, 0, "absent")
    /\ UNCHANGED globals

\* 1555-1627, strategy 1: the new page's URL, content type or embed is PDF
\* evidence (foundPdfUrl); then its bytes are fetched inside the page
AD_NewPage ==
    /\ call.pc = "ad_newPage"
    /\ \E l \in LoadOutcomes :
       \/ /\ call' = [call EXCEPT !.load = l, !.pc = "ad_redirect"]
          /\ obs' = Tried(obs, "newpage", 1, 1, "absent")
       \/ /\ call' = [call EXCEPT !.load = l, !.url = "newpage", !.pc = "ad_resolve",
                                  !.seen = <<>>]
          /\ obs' = Tried(obs, "newpage", 1, 1, "failed")
       \/ /\ call' = [call EXCEPT !.load = l, !.url = "newpage", !.bytes = "newpage",
                                  !.pc = "ad_resolve", !.seen = <<>>]
          /\ obs' = Tried(obs, "newpage", 1, 1, "resolved")
    /\ UNCHANGED globals

\* 1629-1640, strategy 2: the current page's URL changed to one ending in .pdf
\* (responseUrls is read by strategy 3 only, and not once foundPdfUrl is set)
AD_Redirect ==
    /\ call.pc = "ad_redirect"
    /\ \E u \in {"none", "/a.pdf", "/pdf/view"} :
          IF u # "none" /\ UrlEndsWithPdf(u)
          THEN /\ call' = [call EXCEPT !.pageUrl = u, !.url = "redirect",
                                       !.pc = "ad_resolve", !.seen = <<>>]
               /\ obs' = Consult(obs, {"url"})
          ELSE /\ call' = [call EXCEPT !.pageUrl = u, !.pc = "ad_responses"]
               /\ obs' = Tried(Consult(obs, {"url"}), "redirect", 1, 0, "absent")
    /\ UNCHANGED globals

\* 1643-1647: the filter of strategy 3 on a recorded response, of which the
\* listener of 1501 kept the URL only
AD_IsPdfResponse(r) == LooksLikePdfUrl(r.url)

\* 1642-1654, strategy 3: the recorded response URLs that look like a PDF; the
\* last one is taken
AD_Responses ==
    /\ call.pc = "ad_responses"
    /\ LET n == Len(SelectSeq(call.seen, AD_IsPdfResponse)) IN
          IF n > 0
          THEN /\ call' = [call EXCEPT !.url = "response", !.left = n, !.count = n,
                                       !.pc = "ad_resolve", !.seen = <<>>]
               /\ obs' = Consult(obs, {"response"})
          ELSE /\ call' = [call EXCEPT !.pc = "ad_links", !.seen = <<>>]
               /\ obs' = Tried(Consult(obs, {"response"}), "response", 1, 0, "absent")
    /\ UNCHANGED globals

\* 1656-1672, strategy 4: links that were not on the page before the click and
\* look like a PDF; the first one is taken
AD_Links ==
    /\ call.pc = "ad_links"
    /\ \/ /\ call' = Caught(call)
          /\ obs' = Consult(obs, {"links"})
       \/ /\ call' = [call EXCEPT !.pc = "ad_resolve"]
          /\ obs' = Tried(Consult(obs, {"links"}), "link", 1, 0, "absent")
       \/ /\ \E n \in 1..MaxCandidates :
                call' = [call EXCEPT !.url = "link", !.left = 1, !.count = n,
                                     !.pc = "ad_resolve"]
          /\ obs' = Consult(obs, {"links"})
    /\ UNCHANGED globals

\* 1675-1681: a URL without bytes: browser.newContext({acceptDownloads: true})
AD_Resolve ==
    /\ call.pc = "ad_resolve"
    /\ IF call.url # "none" /\ call.bytes = "none"
       THEN \E ok \in BOOLEAN :
               call' = IF ok THEN [call EXCEPT !.ctx = "open", !.pc = "ad_seed"]
                       ELSE Caught(call)
       ELSE call' = [call EXCEPT !.pc = "ad_closeTab"]
    /\ UNCHANGED <<globals, obs>>

\* 1684-1687: context.addCookies(cookies), context.newPage(), outside the try
AD_Seed ==
    /\ call.pc = "ad_seed"
    /\ \E ok \in BOOLEAN, jar \in CookieJars :
          call' = IF ok THEN \* the cookies are those read at 1482, before the click
                             Seeded([call EXCEPT !.pc = "ad_fetch"], jar, CookiesBeforeClick)
                  ELSE Caught(call)
    /\ UNCHANGED <<globals, obs>>

\* the place of the candidate behind foundPdfUrl among those of its source
\* (1652: the last response; 1670: the first link), and how many there were
UrlIndex(c) == IF c.url \in {"response", "link"} THEN c.left ELSE 1
UrlCount(c) == IF c.url \in {"response", "link"} THEN c.count ELSE 1

\* 1696-1711, 2473-2497: the in-page fetch returns the body of any ok response,
\* whatever its content type; 1721-1743, 2504-2518: else the bytes of a download
FetchKinds == {"application/pdf", "text/html", "download"}

\* 1689-1747: goto the URL, fetch its bytes in the page, else wait for a download
AD_Fetch ==
    /\ call.pc = "ad_fetch"
    /\ \/ /\ call' = [call EXCEPT !.pc = "ad_closeCatch"]
          /\ obs' = Tried(obs, call.url, UrlIndex(call), UrlCount(call), "failed")
       \/ /\ call' = Navigated([call EXCEPT !.pc = "ad_closeTry"])
          /\ obs' = Tried(obs, call.url, UrlIndex(call), UrlCount(call), "failed")
       \/ /\ \E f \in FetchKinds :
                call' = Navigated([call EXCEPT !.bytes = call.url, !.fetched = f,
                                               !.pc = "ad_closeTry"])
          /\ obs' = Tried(obs, call.url, UrlIndex(call), UrlCount(call), "resolved")
    /\ UNCHANGED globals

\* 1750: context.close() at the end of the try block; 1753: in its catch block
AD_Close ==
    /\ call.pc \in {"ad_closeTry", "ad_closeCatch"}
    /\ \E o \in CloseOutcomes :
          call' = IF o = "closed" THEN [Closed(call) EXCEPT !.pc = "ad_closeTab"]
                  ELSE IF call.pc = "ad_closeTry" THEN [call EXCEPT !.pc = "ad_closeCatch"]
                  ELSE Caught(call)
    /\ UNCHANGED <<globals, obs>>

\* 1757-1806: the new tab is closed, then the bytes are stored as application/pdf
\* or the failure is reported, with the URL when one was found
AD_Result ==
    /\ call.pc = "ad_closeTab"
    /\ \E closeNewTabs \in BOOLEAN :
          LET c == IF closeNewTabs THEN ClosePage(call) ELSE call IN
          /\ page' = IF closeNewTabs THEN PrimaryAfterClose(call, page) ELSE page
          /\ IF call.bytes # "none"
             THEN /\ WriteMapped(obs, call.fileName, call.bytes, "application/pdf")
                  /\ call' = Return(c, Success("downloaded"))
             ELSE /\ call' = Return(c, IF call.url # "none" THEN Failure("Found PDF URL")
                                       ELSE Failure("No PDF was detected"))
                  /\ UNCHANGED <<stores, obs>>
    /\ UNCHANGED sessions

-----------------------------------------------------------------------------
(* browser_download_pdf, index.ts:888-1149 *)

\* 898-938: the page listener and its timer
DP_Arm ==
    /\ call.pc = "dp_arm"
    /\ call' = Listen([call EXCEPT !.pc = "click"])
    /\ obs' = Arm(obs, call.tool)
    /\ UNCHANGED globals

\* 956-966: await pagePromise: the page the click opened (913-921: resolved
\* whether or not its load wait succeeded), or null.  A page that closes
\* itself during the load wait rejects the wait; its close handler (905-911)
\* finds `handled` already set by 901 and resolves nothing
DP_AwaitPage ==
    /\ call.pc = "dp_awaitPage"
    /\ \E opened \in BOOLEAN :
          IF opened
          THEN /\ \E l \in LoadOutcomes, p \in {"open", "gone"}, who \in Openers(call) :
                     /\ p = "gone" => l = "failed"
                     /\ call' = Unlisten([call EXCEPT !.newPage = p, !.load = l,
                                                      !.opener = who,
                                                      !.pc = "dp_inspect"], {"page"})
               /\ obs' = Consult(obs, {"newpage"})
          ELSE /\ call' = Return(Unlisten(call, {"page"}), Failure("Timeout waiting for PDF"))
               /\ obs' = Tried(Consult(obs, {"newpage"}), "newpage", 1, 0, "absent")
    /\ UNCHANGED globals

\* 971-1040: is the new page a PDF; if not, a screenshot of it is stored under
\* `${fileName}_not_pdf` when the page is still open and the screenshot works;
\* 1037-1039: a PDF page that is closed throws to the catch of 1093
DP_Inspect ==
    /\ call.pc = "dp_inspect"
    /\ \/ /\ call.newPage = "open"
          /\ call' = [call EXCEPT !.pc = "dp_extract"]
          /\ UNCHANGED <<stores, obs>>
       \/ /\ call' = Return(call, Failure("Error processing PDF"))
          /\ obs' = Tried(obs, "newpage", 1, 1, "failed")
          /\ UNCHANGED stores
       \/ /\ call' = Return(call, Failure("The new tab did not contain a PDF"))
          /\ obs' = Tried(obs, "newpage", 1, 1, "absent")
          /\ UNCHANGED stores
       \/ /\ call.newPage = "open"
          /\ call' = Return(call, Failure("The new tab did not contain a PDF"))
          /\ WriteUnmapped(Tried(obs, "newpage", 1, 1, "absent"),
                           NotPdfName(call.fileName), "png", "image/png")
    /\ UNCHANGED handles

\* 1042-1070: fetch the bytes inside the page; when that throws,
\* browser.newContext({acceptDownloads: true}) for a direct download
DP_Extract ==
    /\ call.pc = "dp_extract"
    /\ \/ /\ call' = [call EXCEPT !.bytes = "newpage", !.pc = "dp_store"]
          /\ obs' = Tried(obs, "newpage", 1, 1, "resolved")
       \/ /\ call' = [call EXCEPT !.pc = "dp_store"]
          /\ obs' = Tried(obs, "newpage", 1, 1, "failed")
       \/ /\ call' = [call EXCEPT !.ctx = "open", !.pc = "dp_download"]
          /\ UNCHANGED obs
       \/ /\ call' = Return(call, Failure("Error processing PDF"))
          /\ obs' = Tried(obs, "newpage", 1, 1, "failed")
    /\ UNCHANGED globals

\* 1072-1086: in the try block: newPage, goto, the download, its path and bytes
\* (1078-1080: the waiter is armed, emulateMedia is awaited, then the waiter;
\* the block can throw before, between and after)
DP_Download ==
    /\ call.pc = "dp_download"
    /\ \/ /\ call' = Navigated([call EXCEPT !.bytes = "newpage", !.waiter = "awaited",
                                            !.pc = "dp_closeTry"])
          /\ obs' = Tried(obs, "newpage", 1, 1, "resolved")
       \/ /\ \E w \in {"none", "armed", "awaited"} :
                call' = [call EXCEPT !.waiter = w, !.pc = "dp_closeCatch"]
          /\ obs' = Tried(obs, "newpage", 1, 1, "failed")
    /\ UNCHANGED globals

\* 1088: context.close() at the end of the try block; 1090-1091: in its catch
\* block, which then throws to the catch of 1094
DP_Close ==
    /\ call.pc \in {"dp_closeTry", "dp_closeCatch"}
    /\ \E o \in CloseOutcomes :
          call' = IF call.pc = "dp_closeTry"
                  THEN (IF o = "closed" THEN [Closed(call) EXCEPT !.pc = "dp_store"]
                        ELSE [call EXCEPT !.pc = "dp_closeCatch"])
                  ELSE Return(IF o = "closed" THEN Closed(call) ELSE call,
                              Failure("Error processing PDF"))
    /\ UNCHANGED <<globals, obs>>

\* 1105-1138: the new page is closed; without bytes the call fails, else they
\* are stored under fileName (no MIME type is recorded)
DP_Store ==
    /\ call.pc = "dp_store"
    /\ page' = PrimaryAfterClose(call, page)
    /\ IF call.bytes # "none"
       THEN /\ WriteUnmapped(obs, call.fileName, call.bytes, "application/pdf")
            /\ call' = Return(ClosePage(call), Success("downloaded"))
       ELSE /\ call' = Return(ClosePage(call), Failure("Failed to capture PDF content"))
            /\ UNCHANGED <<stores, obs>>
    /\ UNCHANGED sessions

-----------------------------------------------------------------------------
(* browser_capture_request, index.ts:1818-2231 *)

\* 1871-1932: the request and response listeners, addInitScript, the links
\* before the click
\* (1909-1925: with blockWindowOpen, the default, an init script replacing
\* window.open is registered on the page)
CR_Arm ==
    /\ call.pc = "cr_arm"
    /\ \E ok \in BOOLEAN :
          IF ok THEN /\ call' = Listen([call EXCEPT !.pc = "click"])
                     /\ obs' = Arm(obs, call.tool)
          ELSE /\ call' = Caught(Listen(call))
               /\ UNCHANGED obs
    /\ \E blockWindowOpen \in BOOLEAN :
          hooks' = IF blockWindowOpen THEN hooks \cup {"initScript"} ELSE hooks
    /\ UNCHANGED unhooked

\* the source a strategy of browser_capture_request reads its candidates from
CR_Source(pc) ==
    CASE pc \in {"cr_wait", "cr_responses"} -> "response"
      [] pc \in {"cr_scanLinks", "cr_links"} -> "link"
      [] pc \in {"cr_scanXhr", "cr_xhr"} -> "xhr"

\* the strategy after this one, index.ts:2028, 2100, 2187
CR_After(pc) ==
    CASE pc \in {"cr_wait", "cr_responses"} -> "cr_scanLinks"
      [] pc \in {"cr_scanLinks", "cr_links"} -> "cr_scanXhr"
      [] pc \in {"cr_scanXhr", "cr_xhr"} -> "cr_final"

CR_Loop(pc) ==
    CASE pc = "cr_wait" -> "cr_responses"
      [] pc = "cr_scanLinks" -> "cr_links"
      [] pc = "cr_scanXhr" -> "cr_xhr"

\* the listener or snapshot behind a source
CR_Listener(src) ==
    CASE src = "response" -> {"response"}
      [] src = "link" -> {"links"}
      [] src = "xhr" -> {"request"}

\* 1958-1965: the filter of strategy 1 on a recorded response
CR_IsPdfResponse(r) ==
    /\ r.status >= 200 /\ r.status < 300
    /\ IncludesPdf(r.ctype) \/ LooksLikePdfUrl(r.url)

\* 1953-1967, 2029-2045, 2101-2109: after the wait, the candidates of a strategy
\* are filtered out of what was recorded (links: evaluate may throw)
CR_Scan ==
    /\ call.pc \in {"cr_wait", "cr_scanLinks", "cr_scanXhr"}
    /\ \/ /\ call.pc = "cr_scanLinks"
          /\ call' = Caught(call)
          /\ obs' = Consult(obs, {"links"})
       \/ \E n \in IF call.pc = "cr_wait"
                    THEN {Len(SelectSeq(call.seen, CR_IsPdfResponse))}
                    ELSE 0..MaxCandidates :
             /\ call' = [call EXCEPT !.left = n, !.count = n, !.seen = <<>>,
                            !.url = IF n > 0 /\ @ = "none" THEN CR_Source(call.pc) ELSE @,
                            !.pc = IF n > 0 THEN CR_Loop(call.pc) ELSE CR_After(call.pc)]
             /\ obs' = IF n > 0 THEN Consult(obs, CR_Listener(CR_Source(call.pc)))
                       ELSE Tried(Consult(obs, CR_Listener(CR_Source(call.pc))),
                                  CR_Source(call.pc), 1, 0, "absent")
    /\ UNCHANGED globals

\* the order a strategy walks its candidates in: responses and XHR requests
\* from the last recorded to the first (1969, 2113), links in page order (2049)
CR_Index(src, left, count) == IF src = "link" THEN count - left + 1 ELSE left

\* 2156-2164: the MIME type of an XHR candidate: the content-type header of the
\* first recorded response with the same URL, else by the URL's extension
XhrMimes == BlobTypes

\* 1969-2025, 2049-2097, 2113-2184: one candidate is fetched in the page; bytes
\* are stored and the call returns, else the loop goes on
CR_Try ==
    /\ call.pc \in {"cr_responses", "cr_links", "cr_xhr"}
    /\ LET src == CR_Source(call.pc)
           n == call.count
           idx == CR_Index(src, call.left, n)
       IN \/ /\ call' = [call EXCEPT !.left = @ - 1,
                            !.pc = IF call.left = 1 THEN CR_After(call.pc) ELSE @]
             /\ obs' = Tried(obs, src, idx, n, "failed")
             /\ UNCHANGED stores
          \/ /\ \E mime \in IF src = "xhr" THEN XhrMimes ELSE {"application/pdf"} :
                   WriteMapped(Tried(obs, src, idx, n, "resolved"),
                               call.fileName, src, mime)
             /\ call' = Return([call EXCEPT !.bytes = src], Success("downloaded"))
    /\ UNCHANGED handles

\* 2187-2221: nothing was downloaded: the failure, with the best URL found
CR_Final ==
    /\ call.pc = "cr_final"
    /\ call' = Return(call, IF call.url # "none" THEN Failure("Found PDF URL")
                            ELSE Failure("No PDF content was detected"))
    /\ UNCHANGED <<globals, obs>>

-----------------------------------------------------------------------------
(* browser_intercept_tabs, index.ts:2233-2601 *)

\* 2242-2375: first(), isVisible(), the diagnostics, the injected hooks
IT_Locate ==
    /\ call.pc = "it_locate"
    /\ \/ /\ call' = Caught(call)
          /\ UNCHANGED obs
          /\ UNCHANGED hooks
       \/ /\ obs.matches > 0
          /\ call' = [call EXCEPT !.pc = "it_click"]
          /\ obs' = Arm(obs, call.tool)
          /\ hooks' = hooks \cup {"capture"}
    /\ UNCHANGED unhooked

\* 2431-2452: allPotentialUrls is the intercepted URLs followed by the URLs
\* found in script text; pdfUrls keeps those matching the patterns and the
\* last of them is taken.  h and s count the matching URLs of each kind.
LastPdfUrl(h, s) == IF s > 0 THEN "script" ELSE IF h > 0 THEN "hook" ELSE "none"

\* 2386-2453, 2573-2591: after the wait the intercepted and script URLs are read
IT_Collect ==
    /\ call.pc = "it_wait"
    /\ \/ /\ call' = Caught(call)
          /\ obs' = Consult(obs, {"hook"})
       \/ \E h \in 0..MaxCandidates, s \in 0..MaxCandidates :
             LET src == LastPdfUrl(h, s) IN
             IF src # "none"
             THEN /\ call' = [call EXCEPT !.url = src, !.count = h + s, !.left = h + s,
                                          !.hooked = h, !.pc = "it_newContext"]
                  /\ obs' = Consult(obs, {"hook"})
             ELSE /\ call' = Return(call, Failure("No PDF URL found"))
                  /\ obs' = Tried(Consult(obs, {"hook"}), "hook", 1, 0, "absent")
    /\ UNCHANGED globals

\* 2455-2461 and the catch of 2561-2570: newContext, then cookies(), addCookies()
\* and newPage(); any of them throwing ends the call with isError false
IT_NewContext ==
    /\ call.pc \in {"it_newContext", "it_seed"}
    /\ \E ok \in BOOLEAN, jar \in CookieJars :
          call' = IF ~ok THEN Return(call, Success("could not initiate download"))
                  ELSE IF call.pc = "it_newContext"
                  THEN [call EXCEPT !.ctx = "open", !.pc = "it_seed"]
                  ELSE \* 2459: the cookies are read here, after the click
                       Seeded([call EXCEPT !.pc = "it_fetch"], jar, jar)
    /\ UNCHANGED <<globals, obs>>

\* 2463-2522: goto the URL, fetch its bytes in the page, else wait for a download
IT_Fetch ==
    /\ call.pc = "it_fetch"
    /\ \/ /\ call' = [call EXCEPT !.pc = "it_closeCatch"]
          /\ obs' = Tried(obs, call.url, call.left, call.count, "failed")
       \/ /\ call' = Navigated([call EXCEPT !.pc = "it_closeTry"])
          /\ obs' = Tried(obs, call.url, call.left, call.count, "failed")
       \/ /\ \E f \in FetchKinds :
                call' = Navigated([call EXCEPT !.bytes = call.url, !.fetched = f,
                                               !.pc = "it_closeTry"])
          /\ obs' = Tried(obs, call.url, call.left, call.count, "resolved")
    /\ UNCHANGED globals

\* the result after the close of 2524 succeeded, index.ts:2526-2549
IT_AfterClose(c) ==
    Return(Closed(c), IF c.bytes # "none" THEN Success("downloaded")
                      ELSE Success("Found PDF URL but could not download"))

\* 2524-2549: context.close() in the try block, then the bytes are stored
\* (2527-2529: screenshots.set, then the mapping through fileTypeMappingRef)
IT_CloseTry ==
    /\ call.pc = "it_closeTry"
    /\ \/ /\ call' = [call EXCEPT !.pc = "it_closeCatch"]
          /\ UNCHANGED <<stores, obs>>
       \/ /\ call' = IT_AfterClose(call)
          /\ IF call.bytes # "none"
             THEN WriteMapped(obs, call.fileName, call.bytes, "application/pdf")
             ELSE UNCHANGED <<stores, obs>>
    /\ UNCHANGED handles

\* 2550-2560: the catch block: context.close(), then isError true; a close that
\* throws here lands in the catch of 2561
IT_CloseCatch ==
    /\ call.pc = "it_closeCatch"
    /\ \E o \in CloseOutcomes :
          call' = IF o = "closed" THEN Return(Closed(call), Failure("failed to access"))
                  ELSE Return(call, Success("could not initiate download"))
    /\ UNCHANGED <<globals, obs>>

-----------------------------------------------------------------------------
(* browser_click_and_extract_url, index.ts:2603-2827 *)

\* 2612-2719: first(), isVisible(), exposeFunction('__reportUrlFound__') (which
\* throws when the name is already bound on the page), the injected hooks
EU_Locate ==
    /\ call.pc = "eu_locate"
    /\ \/ /\ call' = [call EXCEPT !.pc = "eu_caught"]
          /\ UNCHANGED <<obs, exposed, hooks>>
       \/ /\ obs.matches > 0
          /\ ~exposed
          /\ exposed' = TRUE
          /\ \E ok \in BOOLEAN :
                IF ok THEN /\ call' = [call EXCEPT !.pc = "eu_click"]
                           /\ obs' = Arm(obs, call.tool)
                           /\ hooks' = hooks \cup {"capture"}
                ELSE /\ call' = [call EXCEPT !.pc = "eu_caught"]
                     /\ UNCHANGED <<obs, hooks>>
    /\ UNCHANGED <<browser, page, stores, leaked, calls, consoleListeners>>

SettleMutant(found, k) == k

\* 2619-2622, 2628-2630: foundUrlResolve(url) settles urlFoundPromise when it
\* is pending and does nothing when it is settled
Settle(found, k) == IF found = 0 THEN k ELSE found

\* 2625-2631, 2663-2666: the hook sees a target URL and calls the exposed
\* function, which resolves urlFoundPromise
EU_Report ==
    /\ call.pc = "eu_race"
    /\ Len(obs.reports) < MaxCandidates
    /\ call' = [call EXCEPT !.url = "hook",
                            !.found = Settle(@, Len(obs.reports) + 1),
                            !.race = IF @ = "pending" THEN "url" ELSE @]
    /\ obs' = Consult([obs EXCEPT !.reports = Append(@, "race")], {"callback"})
    /\ UNCHANGED globals

\* 2625-2631, 2734: a hook of the call is still in the page after the call
\* returned and the exposed function is still the one of 2625 (the overwrite
\* of 2734 is rejected): a report calls foundUrlResolve of the returned call
EU_LateReport ==
    /\ call.pc = "done"
    /\ call.tool = "browser_click_and_extract_url"
    /\ exposed
    /\ "capture" \in hooks
    /\ Len(obs.reports) < MaxCandidates
    /\ call' = [call EXCEPT !.found = Settle(@, Len(obs.reports) + 1)]
    /\ obs' = [obs EXCEPT !.reports = Append(@, "late")]
    /\ UNCHANGED globals

\* 2730: the timer of waitTime ms resolves timeoutPromise
EU_Timer ==
    /\ call.pc = "eu_race"
    /\ call.timer = "unset"
    /\ call' = [call EXCEPT !.timer = "fired",
                            !.race = IF @ = "pending" THEN "timeout" ELSE @]
    /\ UNCHANGED <<globals, obs>>

\* 2731: await Promise.race([urlFoundPromise, timeoutPromise]) goes on once one
\* of the two has settled
RaceSettledMutant(c) == c.timer = "fired"

RaceSettled(c) == c.race # "pending"

\* 2731-2744: after the race the callback is overwritten (exposeFunction on a
\* bound name throws, caught at 2734); a reported URL is returned at once
EU_AfterRace ==
    /\ call.pc = "eu_race"
    /\ RaceSettled(call)
    /\ call' = IF call.race = "url" THEN Return(call, Success("url from callback"))
               ELSE [call EXCEPT !.pc = "eu_fallback"]
    /\ UNCHANGED <<globals, obs>>

\* 2746-2815: after the timeout: the intercepted URLs and the URLs in script
\* text; the last one matching the patterns (2771-2796, as LastPdfUrl), else
\* the last intercepted URL
EU_Fallback ==
    /\ call.pc = "eu_fallback"
    /\ \/ /\ call' = [call EXCEPT !.pc = "eu_caught"]
          /\ obs' = Consult(obs, {"hook"})
       \/ \E h \in 0..MaxCandidates, s \in 0..MaxCandidates :
             /\ LastPdfUrl(h, s) # "none"
             /\ call' = Return([call EXCEPT !.hooked = h, !.count = h + s],
                               Success("url from fallback"))
             /\ obs' = Tried(Consult(obs, {"hook"}), LastPdfUrl(h, s), h + s, h + s,
                             "resolved")
       \/ /\ call' = Return(call, Success("last intercepted url"))
          /\ obs' = Tried(Consult(obs, {"hook"}), "hook", 1, 1, "resolved")
       \/ /\ call.url = "none"
          /\ call' = Return(call, Failure("No URL was intercepted"))
          /\ obs' = Tried(Consult(obs, {"hook"}), "hook", 1, 0, "absent")
    /\ UNCHANGED globals

\* 2816-2826: the catch block: the cleanup of 2818, then the failure
EU_Caught ==
    /\ call.pc = "eu_caught"
    /\ call' = Return(call, Failure("Error during URL extraction"))
    /\ UNCHANGED <<globals, obs>>

-----------------------------------------------------------------------------
(* browser_click_and_capture, index.ts:782-887 *)

\* 788-801: the page URL before the click, the page listener and its timer
CC_Arm ==
    /\ call.pc = "cc_arm"
    /\ call' = Listen([call EXCEPT !.pc = "click"])
    /\ obs' = Arm(obs, call.tool)
    /\ UNCHANGED globals

\* 821-835: await pagePromise; a new page is waited for and its URL returned
CC_AwaitPage ==
    /\ call.pc = "cc_awaitPage"
    /\ \/ /\ call' = [call EXCEPT !.pc = "cc_redirect"]
          /\ obs' = Tried(Consult(obs, {"newpage"}), "newpage", 1, 0, "absent")
       \/ /\ \E l \in LoadOutcomes, who \in Openers(call) :
                LET c == Unlisten([call EXCEPT !.newPage = "open", !.load = l,
                                               !.opener = who], {"page"}) IN
                call' = IF l = "ok" THEN Return(c, Success("new tab")) ELSE Caught(c)
          /\ obs' = Consult(obs, {"newpage"})
    /\ UNCHANGED globals

\* 838-875: the page URL is compared with the one before the click, then the
\* pages of the context are counted
CC_Redirect ==
    /\ call.pc = "cc_redirect"
    /\ \/ /\ call' = Return(call, Success("redirected"))
          /\ obs' = Tried(Consult(obs, {"url"}), "redirect", 1, 1, "resolved")
       \/ /\ call' = Return(Unlisten([call EXCEPT !.newPage = "open", !.load = "ok"],
                                      {"page"}),
                             Success("new tab detected"))
          /\ obs' = Tried(Consult(obs, {"url"}), "newpage", 1, 1, "resolved")
       \/ /\ call' = Caught(Unlisten([call EXCEPT !.newPage = "open", !.load = "failed"],
                                      {"page"}))
          /\ obs' = Tried(Consult(obs, {"url"}), "newpage", 1, 1, "failed")
       \/ /\ call' = Return(call, Success("no redirection"))
          /\ obs' = Tried(Consult(obs, {"url"}), "redirect", 1, 0, "absent")
    /\ UNCHANGED globals

-----------------------------------------------------------------------------
(* browser_click_and_download_authenticated, index.ts:2829-2929 *)

\* 2838: page.waitForEvent('download') on the current page
DA_Arm ==
    /\ call.pc = "da_arm"
    /\ call' = [call EXCEPT !.waiter = "armed", !.pc = "click"]
    /\ obs' = Arm(obs, call.tool)
    /\ UNCHANGED globals

\* 2857: await downloadPromise; its rejection is caught at 2907
DA_AwaitDownload ==
    /\ call.pc = "da_awaitDownload"
    /\ \E fired \in BOOLEAN :
          IF fired
          THEN /\ call' = [call EXCEPT !.download = "started", !.waiter = "awaited",
                                       !.pc = "da_save"]
               /\ obs' = Consult(obs, {"download"})
          ELSE /\ call' = TimeoutCaught([call EXCEPT !.waiter = "awaited"])
               /\ obs' = Tried(Consult(obs, {"download"}), "download", 1, 0, "absent")
    /\ UNCHANGED globals

\* 2862-2869: download.path() (null or a rejection when the download failed),
\* then readFile(tempPath); the file goes to disk, not to the artifact store
DA_Save ==
    /\ call.pc = "da_save"
    /\ \E ok \in BOOLEAN :
          IF ok
          THEN /\ call' = [call EXCEPT !.temp = "present", !.bytes = "download",
                                       !.pc = "da_mkdir"]
               /\ UNCHANGED obs
          ELSE /\ call' = Return(call, Failure("Error during download"))
               /\ obs' = Tried(obs, "download", 1, 1, "failed")
    /\ UNCHANGED globals

\* 2887: fs.mkdir('/app/Downloads', {recursive: true}): creates the directory
\* when it is missing, does nothing when it exists, may reject
DA_Mkdir ==
    /\ call.pc = "da_mkdir"
    /\ \E existed \in BOOLEAN, ok \in BOOLEAN :
          IF ok
          THEN /\ call' = [call EXCEPT !.dir = IF existed THEN "existed" ELSE "created",
                                       !.pc = "da_write"]
               /\ UNCHANGED obs
          ELSE /\ call' = Return([call EXCEPT !.dir = IF existed THEN "existed" ELSE "missing"],
                                 Failure("Error during download"))
               /\ obs' = Tried(obs, "download", 1, 1, "failed")
    /\ UNCHANGED globals

\* 2890: fs.writeFile(finalSavePath, fileBuffer); its rejection is caught at 2907
DA_Write ==
    /\ call.pc = "da_write"
    /\ \E ok \in BOOLEAN :
          IF ok
          THEN /\ call' = [call EXCEPT !.dest = "written", !.pc = "da_unlink"]
               /\ UNCHANGED obs
          ELSE /\ call' = Return(call, Failure("Error during download"))
               /\ obs' = Tried(obs, "download", 1, 1, "failed")
    /\ UNCHANGED globals

UnlinkFailedMutant(c) == Return(c, Failure("Error during download"))

\* 2894: .catch(err => console.error(...)): the rejection of unlink is logged
UnlinkFailed(c) == Return(c, Success("saved to path"))

\* 2894-2905: fs.unlink(tempPath), then the success result
DA_Unlink ==
    /\ call.pc = "da_unlink"
    /\ \E ok \in BOOLEAN :
          call' = IF ok THEN Return([call EXCEPT !.temp = "deleted"], Success("saved to path"))
                  ELSE UnlinkFailed(call)
    /\ obs' = Tried(obs, "download", 1, 1, "resolved")
    /\ UNCHANGED globals

-----------------------------------------------------------------------------
(* Timers that outlive the call *)

\* 931-936, 1522-1526: the timer set beside once('page', pageHandler) removes
\* the handler when it fires, also after the call has returned
PageTimer ==
    /\ call.pc = "done"
    /\ call.tool \in {"browser_download_pdf", "browser_authenticated_download"}
    /\ "page" \in call.listeners
    /\ call' = Unlisten(call, {"page"})
    /\ UNCHANGED <<globals, obs>>

\* 1178, 1078, 2838: a download waiter nobody awaited rejects when its timeout
\* passes or its context closes, after the handler has left the block
WaiterRejects ==
    /\ call.pc = "done"
    /\ call.waiter = "armed"
    /\ call' = [call EXCEPT !.waiter = "unhandled"]
    /\ UNCHANGED <<globals, obs>>

-----------------------------------------------------------------------------
(* The specification *)

Init ==
    /\ browser = "undefined"
    /\ page = "undefined"
    /\ screenshots = [n \in Names |-> Absent]
    /\ fileTypeMappings = [n \in Names |-> Absent]
    /\ exposed = FALSE
    /\ hooks = {}
    /\ leaked = 0
    /\ calls = 0
    /\ consoleListeners = 0
    /\ call = IdleCall
    /\ obs = IdleObs

Next ==
    \/ \E t \in Tools : \E f \in ArgNames(t), n \in LocatorMatches(t) : Dispatch(t, f, n)
    \/ PeerDispatch
    \/ PeerClick
    \/ Navigate
    \/ Screenshot
    \/ FirstClick
    \/ RetryClick
    \/ ClickDone
    \/ HandleClick
    \/ FD_NewContext
    \/ FD_Open
    \/ FD_Abort
    \/ FD_AwaitDownload
    \/ FD_Save
    \/ FD_CloseAndReturn
    \/ FD_Pages
    \/ FD_Requests
    \/ FD_Final
    \/ AD_Arm
    \/ ResponseArrives
    \/ AD_Settle
    \/ AD_AwaitPage
    \/ AD_NewPage
    \/ AD_Redirect
    \/ AD_Responses
    \/ AD_Links
    \/ AD_Resolve
    \/ AD_Seed
    \/ AD_Fetch
    \/ AD_Close
    \/ AD_Result
    \/ DP_Arm
    \/ DP_AwaitPage
    \/ DP_Inspect
    \/ DP_Extract
    \/ DP_Download
    \/ DP_Close
    \/ DP_Store
    \/ CR_Arm
    \/ CR_Scan
    \/ CR_Try
    \/ CR_Final
    \/ IT_Locate
    \/ IT_Collect
    \/ IT_NewContext
    \/ IT_Fetch
    \/ IT_CloseTry
    \/ IT_CloseCatch
    \/ EU_Locate
    \/ EU_Report
    \/ EU_LateReport
    \/ EU_Timer
    \/ EU_AfterRace
    \/ EU_Fallback
    \/ EU_Caught
    \/ CC_Arm
    \/ CC_AwaitPage
    \/ CC_Redirect
    \/ DA_Arm
    \/ DA_AwaitDownload
    \/ DA_Save
    \/ DA_Mkdir
    \/ DA_Write
    \/ DA_Unlink
    \/ PageTimer
    \/ WaiterRejects

Spec == Init /\ [][Next]_vars

-----------------------------------------------------------------------------
(* Properties *)

Done == call.pc = "done"

Returned == Done /\ call.result.kind = "returned"

Succeeded == Returned /\ ~call.result.isError

Failed == Returned /\ call.result.isError

\* the handlers that create an auxiliary browsing context
AuxTools ==
    {"browser_download_pdf", "browser_force_download",
     "browser_authenticated_download", "browser_intercept_tabs"}

\* the writes of the running call under the caller's name
Stored == {i \in 1..Len(obs.writes) : obs.writes[i].name = call.fileName}

\* the candidates whose bytes the running call obtained
Resolved == {i \in 1..Len(obs.trail) : obs.trail[i].out = "resolved"}

\* C1: when a call of browser_download_pdf, browser_force_download,
\* browser_authenticated_download or browser_intercept_tabs has returned, on
\* any path, no auxiliary context it created is still open.
C1_NoContextLeftOpen ==
    (Done /\ call.tool \in AuxTools) => call.ctx # "open"

\* C2: a locator matching one element is clicked exactly once; one matching
\* several is clicked on its first element, in at most two attempts (the
\* attempt and one retry on the first match); when the retry fails nothing
\* more is attempted and the call fails.
C2_ClickAttempts ==
    LET a == obs.attempts IN
    /\ Len(a) <= 2
    /\ \A i \in 1..Len(a) : a[i].element \in {0, 1}
    /\ (obs.matches = 1 /\ Len(a) > 0) => (Len(a) = 1 /\ a[1].element = 1)
    /\ Len(a) = 2 => /\ obs.matches > 1
                     /\ a[1].outcome = "strict" /\ a[1].element = 0
                     /\ a[2].target = "first" /\ a[2].element = 1
    /\ (Len(a) = 2 /\ a[2].outcome # "ok") => Failed

\* C2's case: several matches, the retry on the first one went through
C2_RetriedOnFirst ==
    /\ obs.matches > 1
    /\ Len(obs.attempts) = 2
    /\ obs.attempts[2].outcome = "ok"
    /\ obs.attempts[2].element = 1

\* C3: every signal source a handler reads after the click was registered
\* before the first click attempt was issued.
C3_ArmedBeforeClick ==
    /\ obs.consulted \subseteq obs.armedAtClick
    /\ obs.consulted # {} => Len(obs.attempts) > 0
    /\ Len(obs.attempts) > 0 => obs.armedAtClick = ArmedBy(call.tool)

\* C3's case: a call that read the download waiter and the request recorder
\* it had registered before it clicked
C3_SourcesConsulted ==
    /\ call.tool = "browser_force_download"
    /\ obs.consulted = {"download", "request"}
    /\ Done

\* C4: a call of an acquisition tool that is over has returned a result
\* object, with isError true when it failed; no exception reaches the
\* dispatcher.
C4_StructuredFailure ==
    (Done /\ call.tool \in AcquisitionTools) => Returned

\* the fixed order of C5: native download, new page, network response, DOM link
Rank(src) ==
    CASE src = "download" -> 1
      [] src = "newpage" -> 2
      [] src = "response" -> 3
      [] src = "link" -> 4
      [] OTHER -> 5

\* C5: the artifact stored is made from the highest-ranked candidate whose
\* bytes could be obtained (native download, then new page, then network
\* responses from the most recent one back, then DOM links): no write uses a
\* candidate ranked below one that resolved.
C5_PriorityOrder ==
    /\ \A w \in Stored : \A r \in Resolved :
          Rank(obs.trail[r].src) >= Rank(obs.writes[w].bytes)
    /\ \A i \in 1..Len(obs.trail) :
          LET e == obs.trail[i] IN
          (e.src = "response" /\ e.count > 0) =>
             IF i > 1 /\ obs.trail[i - 1].src = "response"
             THEN e.idx = obs.trail[i - 1].idx - 1
             ELSE e.idx = e.count

\* C6: when the native download fired and its bytes were read, the call
\* succeeds and the artifact under the caller's name holds those bytes.
C6_NativeDownloadWins ==
    (/\ Done
     /\ call.tool = "browser_force_download"
     /\ \E r \in Resolved : obs.trail[r].src = "download")
    => /\ Succeeded
       /\ ReadResource(call.fileName).blob = "download"

\* C7: in browser_click_and_extract_url, once the exposed callback has reported
\* a URL before the timer fired, the wait is over whether or not the timer has
\* fired, and the call returns the reported URL.
C7_EarlyExit ==
    (call.tool = "browser_click_and_extract_url" /\ call.race = "url")
    => \/ call.pc = "eu_race" /\ RaceSettled(call)
       \/ Done /\ call.result = Success("url from callback")

\* C7's case: the URL came back and the timer never fired
C7_ReturnedBeforeTimer ==
    /\ call.tool = "browser_click_and_extract_url"
    /\ Done
    /\ call.race = "url"
    /\ call.timer = "unset"
    /\ call.result = Success("url from callback")

\* C8: reading a name returns the bytes of the last write to it and the MIME
\* type of that same write.
C8_ReadsLastWrite ==
    \A i \in 1..Len(obs.writes) :
       LET w == obs.writes[i] IN
       (\A j \in (i + 1)..Len(obs.writes) : obs.writes[j].name # w.name)
       => ReadResource(w.name) = [found |-> TRUE, blob |-> w.bytes, mimeType |-> w.mime]

\* C9: a call of an artifact-storing acquisition tool reports success exactly
\* when it wrote an artifact under the caller's name.
C9_SuccessIffStored ==
    (Done /\ call.tool \in StoringTools \cap AcquisitionTools)
    => (Succeeded <=> Stored # {})

\* C10: one call writes the artifact store at most once.
C10_AtMostOneWrite ==
    Len(obs.writes) <= 1

\* has the tried candidate e a next one in its list, in the order the handler
\* would walk it (responses, requests and intercepted URLs from the last one
\* back, links in page order)
HasNext(e) == IF e.src = "link" THEN e.idx < e.count ELSE e.idx > 1

\* C11: when a candidate's bytes could not be obtained and another candidate
\* follows it, that one is tried before the call returns without an artifact.
C11_NextCandidateTried ==
    (Done /\ Stored = {})
    => \A i \in 1..Len(obs.trail) :
          (obs.trail[i].out = "failed" /\ HasNext(obs.trail[i])) => i < Len(obs.trail)

\* the click of the running call went through
ClickedOk ==
    /\ Len(obs.attempts) > 0
    /\ obs.attempts[Len(obs.attempts)].outcome = "ok"

\* every source the call looked at held nothing
NoSignal ==
    /\ obs.trail # <<>>
    /\ \A i \in 1..Len(obs.trail) :
          obs.trail[i].out = "absent" /\ obs.trail[i].count = 0

\* C12: a call whose click went through and whose signal sources all stayed
\* empty until the deadline returns a structured failure (isError true), not
\* a success and not an exception.
C12_NoSignalFails ==
    (Done /\ call.tool \in AcquisitionTools /\ ClickedOk /\ NoSignal) => Failed

\* the results that report a capture failure: nothing found, or found and not
\* downloaded, by the deadline
CaptureFailures ==
    {"No download started", "No file download was detected", "No PDF was detected",
     "Found PDF URL", "No PDF content was detected", "No PDF URL found",
     "No URL was intercepted", "Timeout waiting for PDF",
     "Failed to capture PDF content", "The new tab did not contain a PDF"}

\* C13: when the click failed (also after the retry), the call has failed
\* with a result that is not one of the capture failures, and no signal
\* source was read.
C13_ClickFailureIsActionError ==
    (Done /\ Len(obs.attempts) > 0 /\ ~ClickedOk)
    => /\ Failed
       /\ call.result.text \notin CaptureFailures
       /\ obs.consulted = {}
       /\ obs.trail = <<>>

\* C14: when a call has returned, on any path, none of the listeners it
\* registered on the primary page or the primary context is still there.
C14_ListenersDetached ==
    (Done /\ call.tool \in AcquisitionTools) => call.listeners = {}

\* the handlers that install overrides on the primary page
HookTools ==
    {"browser_capture_request", "browser_intercept_tabs",
     "browser_click_and_extract_url"}

\* C15: when browser_capture_request, browser_intercept_tabs or
\* browser_click_and_extract_url has returned, no override it installed on
\* the primary page is left for later calls and the exposed callback no
\* longer reports.
C15_HooksDeactivated ==
    (Done /\ call.tool \in HookTools) => (hooks = {} /\ ~exposed)

\* C16: no page of an auxiliary context navigates before the cookies of the
\* primary context were added to that context.
C16_CookiesBeforeNavigation ==
    call.auxNav # "unseeded"

\* C17: every write to the artifact store is followed by a list_changed
\* notification before the call goes on: there are never fewer notifications
\* than writes.
C17_WriteNotifies ==
    obs.notes >= Len(obs.writes)

\* C17's case: browser_authenticated_download stored its artifact and returned
C17_StoredAndNotified ==
    /\ Done
    /\ call.tool = "browser_authenticated_download"
    /\ Len(obs.writes) = 1
    /\ obs.notes = 1

\* C18: the engine never closes the primary page or the browser: once open
\* they stay open through every step of every call.
C18_PrimaryStaysOpen ==
    [][/\ page = "open" => page' = "open"
       /\ browser = "launched" => browser' = "launched"]_vars

\* C18's case: browser_authenticated_download closed the tab the click opened
\* and the primary page is open
C18_NewTabClosed ==
    /\ Done
    /\ call.tool = "browser_authenticated_download"
    /\ call.newPage = "closed"
    /\ page = "open"

\* C19: when the click is issued, the call has attached the download
\* listener, the new-page listener, a request or response recorder and the
\* injected hook with its exposed callback.
C19_AllFourArmed ==
    (call.tool \in AcquisitionTools /\ Len(obs.attempts) > 0)
    => /\ "download" \in obs.armedAtClick
       /\ "newpage" \in obs.armedAtClick
       /\ obs.armedAtClick \cap {"request", "response"} # {}
       /\ {"hook", "callback"} \subseteq obs.armedAtClick

\* C20: when the click opened a new page holding a PDF and its bytes were
\* read, the call succeeds with those bytes stored under the caller's name,
\* and reading that name gives them back as application/pdf.
C20_NewPagePdfStored ==
    (/\ Done
     /\ call.tool \in {"browser_download_pdf", "browser_authenticated_download"}
     /\ call.bytes = "newpage")
    => /\ Succeeded
       /\ ReadResource(call.fileName) =
             [found |-> TRUE, blob |-> "newpage", mimeType |-> "application/pdf"]

(* C21..C30 *)

\* the recorded response of a PDF export endpoint: 200, content type
\* application/pdf, and a URL that matches none of the URL patterns
ExportResponse == [status |-> 200, ctype |-> "application/pdf", url |-> "/export?format=pdf"]

\* the step in which a call selects its candidates from the recorded responses
SelectsFromResponses == call.pc \in {"ad_responses", "cr_wait"} /\ call'.pc # call.pc

\* C21: a call whose most recent recorded response is the 200 application/pdf
\* response of an export endpoint selects it as its candidate, and a response
\* candidate is resolved only by a page of an auxiliary context that carries
\* the primary context's cookies
C21_ResponseResolvedInAuxContext ==
    [][/\ (SelectsFromResponses /\ call.seen # <<>>
           /\ call.seen[Len(call.seen)] = ExportResponse)
          => call'.url = "response"
       /\ \A i \in DOMAIN obs'.trail :
             (obs'.trail[i].src = "response" /\ obs'.trail[i].out = "resolved")
                => call'.auxNav = "seeded"]_vars

DownloadToPath == call.tool = "browser_click_and_download_authenticated"

\* C22: in the download-to-path variant the destination directory exists once
\* the file is written; the temporary file is deleted only when the copy was
\* written; a call that wrote the copy succeeds whether or not the deletion
\* did; a call whose download started and whose copy was not written fails
C22_CopyThenDelete ==
    DownloadToPath =>
       /\ call.dest = "written" => call.dir \in {"existed", "created"}
       /\ call.temp = "deleted" => call.dest = "written"
       /\ (Done /\ call.dest = "written") => Succeeded
       /\ (Done /\ call.download = "started" /\ call.dest # "written") => Failed

C22_DeletionFailed ==
    DownloadToPath /\ Succeeded /\ call.dir = "created" /\ call.temp = "present"

\* C23: when a call starts selecting from the recorded responses, every
\* response that arrived on the primary page since the click was recorded
C23_EveryResponseRecorded ==
    call.pc \in {"ad_responses", "cr_wait"} => obs.missed = 0

\* a response with a status of 200..299 whose content type names the target
\* family or whose URL matches the target patterns
SuccessfulPdfResponse(r) ==
    /\ r.status \in 200..299
    /\ IncludesPdf(r.ctype) \/ LooksLikePdfUrl(r.url)

\* C24: the candidates a call selects from its recorded responses are exactly
\* the responses with a 2xx status and a PDF content type or a PDF-like URL
C24_CandidateIffSuccessfulPdf ==
    [][SelectsFromResponses
          => call'.count = Len(SelectSeq(call.seen, SuccessfulPdfResponse))]_vars

\* C25: the step in which the load wait on a new page fails neither ends the
\* call nor marks the new-page candidate as failed
C25_LoadFailureTolerated ==
    [][(call'.load = "failed" /\ call.load # "failed")
          => /\ call'.pc # "done"
             /\ \A i \in DOMAIN obs'.trail :
                   (obs'.trail[i].src = "newpage" /\ obs'.trail[i].out = "failed")
                      => i \in DOMAIN obs.trail]_vars

\* C26: in browser_download_pdf the new-page wait never yields a page that
\* closed itself, and a call does not fail over a page that closed itself
\* while the re-fetch of its URL in an auxiliary context is untried
C26_ClosedPageIsSoftFailure ==
    call.tool = "browser_download_pdf" =>
       /\ call.pc = "dp_inspect" => call.newPage # "gone"
       /\ (Done /\ call.newPage = "gone" /\ call.result = Failure("Error processing PDF"))
             => call.ctx # "none"

\* C27: bytes an auxiliary page resolved a URL to are kept only when its
\* in-page fetch answered with a PDF content type or when they came from the
\* native download, so what is stored as application/pdf has PDF evidence
C27_BytesNeedPdfEvidence ==
    \A i \in DOMAIN obs.writes :
       (/\ call.tool \in {"browser_authenticated_download", "browser_intercept_tabs"}
        /\ call.auxNav # "none"
        /\ obs.writes[i].mime = "application/pdf")
          => call.fetched \in {"application/pdf", "download"}

\* C28: in browser_intercept_tabs and in the fallback of
\* browser_click_and_extract_url a URL found in script text is the candidate
\* only when no intercepted URL matches the patterns
C28_ScriptUrlsLast ==
    call.tool \in {"browser_intercept_tabs", "browser_click_and_extract_url"} =>
       /\ call.url = "script" => call.hooked = 0
       /\ \A i \in DOMAIN obs.trail : obs.trail[i].src = "script" => call.hooked = 0

\* C29: in browser_authenticated_download, when no new page gave a URL and the
\* primary page went to a URL matching the patterns used for responses and
\* links, that URL is the candidate
C29_RedirectIsCandidate ==
    (/\ call.tool = "browser_authenticated_download"
     /\ call.pageUrl # "none"
     /\ LooksLikePdfUrl(call.pageUrl))
       => call.url = "redirect"

\* C30: in browser_click_and_extract_url the promise the hook reports to is
\* settled at most once in a call, the URL returned on early exit is that of
\* the call's first report, and a report made after the call returned
\* changes neither its result nor anything a later call reads
C30_ReportIsOneShot ==
    /\ []((Done /\ call.result = Success("url from callback")) => call.found = 1)
    /\ [][/\ (calls' = calls /\ call.found # 0) => call'.found = call.found
          /\ (call.pc = "done" /\ Len(obs'.reports) > Len(obs.reports))
                => (call'.result = call.result /\ UNCHANGED globals)]_vars

C30_ReportedAgainAfterReturn ==
    /\ Done
    /\ call.result = Success("url from callback")
    /\ obs.reports = <<"race", "late">>
    /\ call.found = 1

(* C31..C39 *)

\* the lower-cased extension of a file name: what follows its last dot, and
\* nothing when the name has no dot
LowerCasedExtension(name) == IF Len(name) > 1 THEN ToLowerCase(name[Len(name)]) ELSE ""

\* the fixed table of extensions
TableMime(ext) ==
    CASE ext = "pdf" -> "application/pdf"
      [] ext \in {"doc", "docx"} -> "application/msword"
      [] ext \in {"xls", "xlsx"} -> "application/vnd.ms-excel"
      [] ext \in {"ppt", "pptx"} -> "application/vnd.ms-powerpoint"
      [] OTHER -> "application/octet-stream"

\* C31: the MIME type recorded for a native download is the table's entry for
\* the lower-cased extension of the suggested file name, and
\* application/octet-stream when the name has no extension
C31_MimeFromExtension ==
    (call.tool = "browser_force_download" /\ call.suggested # <<>>
     /\ call.pc = "fd_close1")
       => fileTypeMappings[call.fileName] = TableMime(LowerCasedExtension(call.suggested))

\* C32: the cookies added to an auxiliary context are those the primary
\* context holds when the auxiliary context is set up, a cookie the click set
\* included
C32_CookiesAtCloneTime ==
    call.seeded => call.auxCookies = call.jar

\* C33: an acquisition call that returns isError true has written nothing to
\* the artifact store, under its fileName or any name derived from it
C33_FailureWritesNothing ==
    (Failed /\ call.tool \in AcquisitionTools) => obs.writes = <<>>

\* C34: a download waiter armed by a call is awaited or handled on every path:
\* none rejects with nobody to handle the rejection
C34_NoAbandonedWaiter ==
    call.waiter # "unhandled"

\* C35: the page a call takes from its new-page wait was opened by its own
\* click, never by the click of a call handled at the same time
C35_OwnPagesOnly ==
    call.opener # "peer"

\* C36: when browser_click_and_extract_url starts, the name of its callback is
\* free on the page, so that the invocation can bind its own callback
C36_CallbackNameFree ==
    (call.tool = "browser_click_and_extract_url" /\ call.pc = "eu_locate") => ~exposed

\* C37: at most one console listener is registered on the primary page, so
\* that a console message is logged and notified once
C37_OneConsoleListener ==
    consoleListeners <= 1

\* C38: every entry of the resource listing advertises the MIME type that
\* reading the same entry returns
C38_ListedMimeIsReadMime ==
    \A r \in ListResources : r.mimeType = ReadResource(r.name).mimeType

\* C39: when the deadline passed with no report, browser_click_and_extract_url
\* succeeds only if an intercepted or script URL matches the target patterns
C39_SuccessNeedsTargetUrl ==
    (call.tool = "browser_click_and_extract_url" /\ Succeeded /\ call.race = "timeout")
       => call.count > 0

====
